---- MODULE Spec2Model ----
(***************************************************************************)
(* Model of samples/MultipleReadPropertyForeign.py: an application that    *)
(* waits for its foreign device registration (PrairieDog, a recurring      *)
(* task) and then reads a list of points one request at a time             *)
(* (ReadPointListApplication), collecting the values in response_values.   *)
(***************************************************************************)
EXTENDS Integers, Sequences, FiniteSets, TLC

\* ---------------------------------------------------------------- bounds
MaxPoints == 3          \* longest configured point list explored
MaxPolls == 12          \* most monitor ticks explored in one run

\* ------------------------------------------------------ program constants
FixedTimeoutMs == 5000  \* "5 * 1000" of PrairieDog.__init__
MainInterval == 500     \* PrairieDog(500) in main

\* Python's None, for the optional fields of an IOCB
None == [kind |-> "None"]
\* apdu.propertyArrayIndex is None
NoIndex == -1

\* what `/` does to two ints: floor division (Python 2) or true division
\* (Python 3); the sample runs under either interpreter
Divisions == {"floor", "true"}

\* intervals a PrairieDog may be constructed with: the one main uses, some
\* that divide 5000, one that does not, one larger than 5000
PollIntervals == {MainInterval, 1000, 2500, 5000, 3000, 7000}

\* bip.registrationStatus: -1 not registered yet, 0 success, 48 a NAK code
StatusValues == {-1, 0, 48}

\* the datatype registry's answers: a class, or nothing (unknown)
NoDatatype == [name |-> "None", isArray |-> FALSE, subtype |-> "None"]
Datatypes ==
    { [name |-> "Real", isArray |-> FALSE, subtype |-> "None"],
      [name |-> "ArrayOfReal", isArray |-> TRUE, subtype |-> "Real"],
      [name |-> "ArrayOfCharacterString", isArray |-> TRUE,
        subtype |-> "CharacterString"] }

\* the array indexes a ReadPropertyACK may carry
ArrayIndexes == {NoIndex, 0, 1}

VARIABLES
    point_list,         \* the configured list (module global), never mutated
    point_queue,        \* self.point_queue, a deque of points
    response_values,    \* self.response_values
    interval,           \* the interval the PrairieDog was built with
    division,           \* which `/` the interpreter provides
    decay,              \* self.decay, a rational <<numerator, denominator>>
    suspended,          \* the recurring task has been suspended
    registrationStatus, \* this_application.bip.registrationStatus
    running,            \* the core's event loop is running
    deferredFns,        \* the core's queue of deferred functions
    inflight,           \* the IOCBs submitted and not yet completed
    stderr,             \* what has been written to sys.stderr
    stdout,             \* the lines printed by main
    pc,                 \* where main is: in run() or past the dump
    submitted,          \* history: the points handed to request_io, in order
    completed,          \* history: number of complete_request invocations
    lastCompletion,     \* history: the IOCB last handed to complete_request
    raised,             \* history: number of TypeErrors raised
    polls,              \* history: number of process_task invocations
    dogTriggers,        \* history: next_request deferrals made by the dog
    stopCalls           \* history: who called stop(), in order

vars == <<point_list, point_queue, response_values, interval, division,
          decay, suspended, registrationStatus, running, deferredFns,
          inflight, stderr, stdout, pc, submitted, completed,
          lastCompletion, raised, polls, dogTriggers, stopCalls>>

\* ------------------------------------------------------------- helpers

\* 5 * 1000 / interval, as the interpreter computes it
InitialDecay(i, d) ==
    IF d = "floor" THEN <<FixedTimeoutMs \div i, 1>> ELSE <<FixedTimeoutMs, i>>

\* self.decay -= 1
Decrement(q) == <<q[1] - q[2], q[2]>>

\* self.decay == 0
IsZero(q) == q[1] = 0

\* the type handed to cast_out when index 0 is not told apart
CastType_NoCountCase(datatype, propertyArrayIndex) ==
    IF datatype.isArray /\ propertyArrayIndex # NoIndex
    THEN datatype.subtype
    ELSE datatype.name

\* the type handed to cast_out
CastType(datatype, propertyArrayIndex) ==
    IF datatype.isArray /\ propertyArrayIndex # NoIndex
    THEN IF propertyArrayIndex = 0 THEN "Unsigned" ELSE datatype.subtype
    ELSE datatype.name

\* apdu.propertyValue.cast_out(type): the value read from the point
cast_out(point, type) == [kind |-> "value", point |-> point, type |-> type]

\* the error a failed read completes with
ErrorOf(point) == [kind |-> "error", point |-> point]

\* a pairing that follows the point list and loses the last pair
Zip_DropsLast(s, t) ==
    [i \in 1..(IF Len(s) <= Len(t) THEN Len(s) - 1 ELSE Len(t)) |->
        <<s[i], t[i]>>]

\* the shorter of two lengths, where zip stops
Min(a, b) == IF a < b THEN a ELSE b
\* zip(point_list, response_values)
Zip(s, t) == [i \in 1..Min(Len(s), Len(t)) |-> <<s[i], t[i]>>]

\* the completions the stack can deliver for the request of a point:
\* an acknowledgement or an error, never both and never neither
Completions(point) ==
    { [point |-> point, ioError |-> None,
       ioResponse |-> [kind |-> "ack", propertyArrayIndex |-> ix]]
        : ix \in ArrayIndexes }
    \cup { [point |-> point, ioError |-> ErrorOf(point), ioResponse |-> None] }

\* ------------------------------------------------------------ initial state

\* ReadPointListApplication.__init__, PrairieDog.__init__ and main up to run()
InitWith(intervals) ==
    /\ \E n \in 0..MaxPoints : point_list = [i \in 1..n |-> i]
    /\ point_queue = point_list
    /\ response_values = <<>>
    /\ interval \in intervals
    /\ division \in Divisions
    /\ decay = InitialDecay(interval, division)
    /\ suspended = FALSE
    /\ registrationStatus = -1
    /\ running = TRUE
    /\ deferredFns = <<>>
    /\ inflight = {}
    /\ stderr = <<>>
    /\ stdout = <<>>
    /\ pc = "run"
    /\ submitted = <<>>
    /\ completed = 0
    /\ lastCompletion = None
    /\ raised = 0
    /\ polls = 0
    /\ dogTriggers = 0
    /\ stopCalls = <<>>

Init == InitWith({MainInterval})

InitDog == InitWith(PollIntervals)

\* --------------------------------------------------------------- actions

\* stop(): the loop ends
stop(caller) ==
    /\ running' = FALSE
    /\ stopCalls' = Append(stopCalls, caller)

\* next_request that returns from the empty queue without calling stop()
next_request_NoStop ==
    IF point_queue = <<>>
    THEN UNCHANGED <<running, stopCalls, point_queue, inflight, submitted>>
    ELSE /\ point_queue' = Tail(point_queue)
         /\ inflight' = inflight \cup {Head(point_queue)}
         /\ submitted' = Append(submitted, Head(point_queue))
         /\ UNCHANGED <<running, stopCalls>>

\* next_request that takes the point from the wrong end of the deque
next_request_PopsRight ==
    IF point_queue = <<>>
    THEN /\ stop("next_request")
         /\ UNCHANGED <<point_queue, inflight, submitted>>
    ELSE /\ point_queue' = SubSeq(point_queue, 1, Len(point_queue) - 1)
         /\ inflight' = inflight \cup {point_queue[Len(point_queue)]}
         /\ submitted' = Append(submitted, point_queue[Len(point_queue)])
         /\ UNCHANGED <<running, stopCalls>>

\* ReadPointListApplication.next_request; the caller says what happens to
\* the deferred queue
next_request ==
    IF point_queue = <<>>
    THEN /\ stop("next_request")
         /\ UNCHANGED <<point_queue, inflight, submitted>>
    ELSE /\ point_queue' = Tail(point_queue)
         /\ inflight' = inflight \cup {Head(point_queue)}
         /\ submitted' = Append(submitted, Head(point_queue))
         /\ UNCHANGED <<running, stopCalls>>

\* complete_request with an early return after recording an error
complete_request_ErrorReturns(iocb, datatype) ==
    LET value == cast_out(iocb.point,
                          CastType(datatype, iocb.ioResponse.propertyArrayIndex))
    IN  IF iocb.ioResponse # None /\ datatype = NoDatatype
        THEN /\ raised' = raised + 1
             /\ UNCHANGED <<response_values, deferredFns>>
        ELSE IF iocb.ioError # None
        THEN /\ response_values' = Append(response_values, iocb.ioError)
             /\ UNCHANGED <<deferredFns, raised>>
        ELSE /\ response_values' = Append(response_values, value)
             /\ deferredFns' = Append(deferredFns, "next_request")
             /\ UNCHANGED raised

\* complete_request that fires off the next request twice
complete_request_DefersTwice(iocb, datatype) ==
    LET value == cast_out(iocb.point,
                          CastType(datatype, iocb.ioResponse.propertyArrayIndex))
        saved == IF iocb.ioResponse # None
                 THEN Append(response_values, value)
                 ELSE response_values
        final == IF iocb.ioError # None
                 THEN Append(saved, iocb.ioError)
                 ELSE saved
    IN  IF iocb.ioResponse # None /\ datatype = NoDatatype
        THEN /\ raised' = raised + 1
             /\ UNCHANGED <<response_values, deferredFns>>
        ELSE /\ response_values' = final
             /\ deferredFns' =
                   Append(Append(deferredFns, "next_request"), "next_request")
             /\ UNCHANGED raised

\* complete_request that starts the list over when it records an error
complete_request_ResetsOnError(iocb, datatype) ==
    LET value == cast_out(iocb.point,
                          CastType(datatype, iocb.ioResponse.propertyArrayIndex))
        saved == IF iocb.ioResponse # None
                 THEN Append(response_values, value)
                 ELSE response_values
        final == IF iocb.ioError # None
                 THEN <<iocb.ioError>>
                 ELSE saved
    IN  IF iocb.ioResponse # None /\ datatype = NoDatatype
        THEN /\ raised' = raised + 1
             /\ UNCHANGED <<response_values, deferredFns>>
        ELSE /\ response_values' = final
             /\ deferredFns' = Append(deferredFns, "next_request")
             /\ UNCHANGED raised

\* ReadPointListApplication.complete_request; datatype is get_datatype's
\* answer for the response
complete_request(iocb, datatype) ==
    LET value == cast_out(iocb.point,
                          CastType(datatype, iocb.ioResponse.propertyArrayIndex))
        saved == IF iocb.ioResponse # None
                 THEN Append(response_values, value)
                 ELSE response_values
        final == IF iocb.ioError # None
                 THEN Append(saved, iocb.ioError)
                 ELSE saved
    IN  IF iocb.ioResponse # None /\ datatype = NoDatatype
        THEN \* raise TypeError("unknown datatype")
             /\ raised' = raised + 1
             /\ UNCHANGED <<response_values, deferredFns>>
        ELSE /\ response_values' = final
             /\ deferredFns' = Append(deferredFns, "next_request")
             /\ UNCHANGED raised

\* process_task without the suspend_task() call
process_task_NoSuspend ==
    /\ running
    /\ ~suspended
    /\ polls < MaxPolls
    /\ polls' = polls + 1
    /\ IF registrationStatus = 0
       THEN /\ deferredFns' = Append(deferredFns, "next_request")
            /\ dogTriggers' = dogTriggers + 1
            /\ UNCHANGED <<suspended, decay, stderr, running, stopCalls>>
       ELSE /\ decay' = Decrement(decay)
            /\ IF IsZero(decay')
               THEN /\ stderr' = Append(stderr, "registration failed\n")
                    /\ stop("process_task")
               ELSE UNCHANGED <<stderr, running, stopCalls>>
            /\ UNCHANGED <<deferredFns, dogTriggers, suspended>>
    /\ UNCHANGED <<point_list, point_queue, response_values, interval,
                   division, registrationStatus, inflight, stdout, pc,
                   submitted, completed, lastCompletion, raised>>

\* process_task without the stop() call when the counter runs out
process_task_NoStop ==
    /\ running
    /\ ~suspended
    /\ polls < MaxPolls
    /\ polls' = polls + 1
    /\ IF registrationStatus = 0
       THEN /\ deferredFns' = Append(deferredFns, "next_request")
            /\ dogTriggers' = dogTriggers + 1
            /\ suspended' = TRUE
            /\ UNCHANGED <<decay, stderr, running, stopCalls>>
       ELSE /\ decay' = Decrement(decay)
            /\ IF IsZero(decay')
               THEN /\ stderr' = Append(stderr, "registration failed\n")
                    /\ UNCHANGED <<running, stopCalls>>
               ELSE UNCHANGED <<stderr, running, stopCalls>>
            /\ UNCHANGED <<deferredFns, dogTriggers, suspended>>
    /\ UNCHANGED <<point_list, point_queue, response_values, interval,
                   division, registrationStatus, inflight, stdout, pc,
                   submitted, completed, lastCompletion, raised>>

\* process_task that counts the tick down before it looks at the status
process_task_DecrementFirst ==
    /\ running
    /\ ~suspended
    /\ polls < MaxPolls
    /\ polls' = polls + 1
    /\ decay' = Decrement(decay)
    /\ IF IsZero(decay')
       THEN /\ stderr' = Append(stderr, "registration failed\n")
            /\ stop("process_task")
            /\ UNCHANGED <<deferredFns, dogTriggers, suspended>>
       ELSE IF registrationStatus = 0
       THEN /\ deferredFns' = Append(deferredFns, "next_request")
            /\ dogTriggers' = dogTriggers + 1
            /\ suspended' = TRUE
            /\ UNCHANGED <<stderr, running, stopCalls>>
       ELSE UNCHANGED <<deferredFns, dogTriggers, suspended, stderr,
                        running, stopCalls>>
    /\ UNCHANGED <<point_list, point_queue, response_values, interval,
                   division, registrationStatus, inflight, stdout, pc,
                   submitted, completed, lastCompletion, raised>>

\* PrairieDog.process_task, one tick of the recurring task
process_task ==
    /\ running
    /\ ~suspended
    /\ polls < MaxPolls
    /\ polls' = polls + 1
    /\ IF registrationStatus = 0
       THEN /\ deferredFns' = Append(deferredFns, "next_request")
            /\ dogTriggers' = dogTriggers + 1
            /\ suspended' = TRUE
            /\ UNCHANGED <<decay, stderr, running, stopCalls>>
       ELSE /\ decay' = Decrement(decay)
            /\ IF IsZero(decay')
               THEN /\ stderr' = Append(stderr, "registration failed\n")
                    /\ stop("process_task")
               ELSE UNCHANGED <<stderr, running, stopCalls>>
            /\ UNCHANGED <<deferredFns, dogTriggers, suspended>>
    /\ UNCHANGED <<point_list, point_queue, response_values, interval,
                   division, registrationStatus, inflight, stdout, pc,
                   submitted, completed, lastCompletion, raised>>

\* the event loop runs the oldest deferred function
RunDeferred ==
    /\ running
    /\ deferredFns # <<>>
    /\ deferredFns' = Tail(deferredFns)
    /\ next_request
    /\ UNCHANGED <<point_list, response_values, interval, division, decay,
                   suspended, registrationStatus, stderr, stdout, pc,
                   completed, lastCompletion, raised, polls, dogTriggers>>

\* the stack completes an outstanding IOCB and runs its callback
Complete ==
    /\ running
    /\ \E point \in inflight :
       \E iocb \in Completions(point) :
       \E datatype \in Datatypes \cup {NoDatatype} :
          /\ iocb.ioResponse = None => datatype = NoDatatype
          /\ inflight' = inflight \ {point}
          /\ completed' = completed + 1
          /\ lastCompletion' = [iocb |-> iocb, datatype |-> datatype]
          /\ complete_request(iocb, datatype)
    /\ UNCHANGED <<point_list, point_queue, interval, division, decay,
                   suspended, registrationStatus, running, stderr, stdout,
                   pc, submitted, polls, dogTriggers, stopCalls>>

\* the transport changes the registration status
RegistrationUpdate ==
    /\ running
    /\ registrationStatus' \in StatusValues \ {registrationStatus}
    /\ UNCHANGED <<point_list, point_queue, response_values, interval,
                   division, decay, suspended, running, deferredFns,
                   inflight, stderr, stdout, pc, submitted, completed,
                   lastCompletion, raised, polls, dogTriggers, stopCalls>>

\* main after run() returns: dump out the results
Dump ==
    /\ ~running
    /\ pc = "run"
    /\ stdout' = Zip(point_list, response_values)
    /\ pc' = "fini"
    /\ UNCHANGED <<point_list, point_queue, response_values, interval,
                   division, decay, suspended, registrationStatus, running,
                   deferredFns, inflight, stderr, submitted, completed,
                   lastCompletion, raised, polls, dogTriggers, stopCalls>>

Next ==
    \/ process_task
    \/ RunDeferred
    \/ Complete
    \/ RegistrationUpdate
    \/ Dump

\* the program as main builds it
Spec == Init /\ [][Next]_vars

\* the program under a scheduler that is fair to the deferred functions and
\* to the completion of outstanding IOCBs
FairSpec == Spec /\ WF_vars(RunDeferred) /\ WF_vars(Complete)

\* a PrairieDog built with any interval
DogSpec == InitDog /\ [][Next]_vars

\* the same, with the recurring task fired again and again while installed
FairDogSpec == DogSpec /\ WF_vars(process_task)

\* some caller invokes next_request directly while the loop runs
DirectNextRequest ==
    /\ running
    /\ next_request
    /\ UNCHANGED <<point_list, response_values, interval, division, decay,
                   suspended, registrationStatus, deferredFns, stderr,
                   stdout, pc, completed, lastCompletion, raised, polls,
                   dogTriggers>>

NextReentry ==
    \/ Next
    \/ DirectNextRequest

\* the application with next_request open to direct calls
ReentrySpec == Init /\ [][NextReentry]_vars

\* ================================================================ claims

\* the monitor has seen the registration succeed
Succeeded == suspended

\* the driver found its queue empty and called stop()
DriverDone == stopCalls = <<"next_request">>

\* the monitor ran out of budget and called stop()
Aborted == stopCalls = <<"process_task">>

\* response_values[i] is the outcome of the request for point_list[i]
Aligned ==
    \A i \in 1..Len(response_values) :
        i <= Len(point_list) /\ response_values[i].point = point_list[i]

\* complete_request has just been run on a completion
Completing == completed' = completed + 1

\* floor(5000 / interval)
DecayBudget == FixedTimeoutMs \div interval

\* C1: with a non-empty point list, once the monitor has seen the
\* registration succeed the run eventually reaches Done with exactly
\* len(point_list) requests submitted and len(point_list) entries in
\* response_values, entry i being the outcome of point i.
C1_EventuallyDone ==
    (Succeeded /\ point_list # <<>>)
        ~> ( /\ DriverDone
             /\ Len(submitted) = Len(point_list)
             /\ Len(response_values) = Len(point_list)
             /\ Aligned )

\* C2: at most one request is outstanding, requests are submitted in list
\* order, and request N is not submitted before the completion of request
\* N-1 has been processed.
C2_SingleFlight ==
    /\ Cardinality(inflight) <= 1
    /\ Len(submitted) <= Len(point_list)
    /\ \A i \in 1..Len(submitted) : submitted[i] = point_list[i]
    /\ Len(submitted) <= completed + 1
    /\ Len(submitted) = completed + Cardinality(inflight)

C2_Witness == Len(submitted) = 3 /\ completed = 2 /\ inflight = {3}

\* C3: the monitor defers next_request exactly once, in the tick that
\* observes registrationStatus = 0, and no request is submitted while the
\* monitor is still waiting.
C3_FirstTurnOnce ==
    /\ [](/\ dogTriggers = (IF Succeeded THEN 1 ELSE 0)
          /\ ~Succeeded => (submitted = <<>> /\ inflight = {}
                            /\ deferredFns = <<>>))
    /\ [][dogTriggers' # dogTriggers =>
            /\ registrationStatus = 0
            /\ polls' = polls + 1
            /\ deferredFns' = Append(deferredFns, "next_request")]_vars

C3_Witness ==
    Succeeded /\ dogTriggers = 1 /\ polls > 1 /\ Len(submitted) = 2

\* C4 as stated: when DecayBudget polls have gone by without success, the
\* monitor has stopped the run, response_values is shorter than the point
\* list, and the diagnostic has been written exactly once.
C4_Original ==
    /\ Len(stderr) <= 1
    /\ (~Succeeded /\ polls >= DecayBudget) =>
          /\ Aborted
          /\ ~running
          /\ stderr = <<"registration failed\n">>
          /\ Len(response_values) < Len(point_list)

\* C4 as amended: the same, where response_values is shorter than the point
\* list whenever the point list is not empty (an empty list is read in full
\* by reading nothing).
C4_Amended ==
    /\ Len(stderr) <= 1
    /\ stderr # <<>> => Aborted
    /\ (~Succeeded /\ polls >= DecayBudget) =>
          /\ Aborted
          /\ ~running
          /\ stderr = <<"registration failed\n">>
          /\ Len(response_values) <= Len(point_list)
          /\ point_list # <<>> => Len(response_values) < Len(point_list)

C4_Witness ==
    /\ ~Succeeded /\ polls = DecayBudget /\ Aborted
    /\ point_list # <<>> /\ pc = "fini"

\* C5: a response whose datatype the registry cannot resolve is recorded as
\* an error outcome for its point, and the next advance is still scheduled.
C5_UnknownDatatypeRecorded ==
    [][(/\ Completing
        /\ lastCompletion'.iocb.ioResponse # None
        /\ lastCompletion'.datatype = NoDatatype)
       => /\ Len(response_values') = Len(response_values) + 1
          /\ response_values'[Len(response_values')].kind = "error"
          /\ deferredFns' = Append(deferredFns, "next_request")]_vars

\* the last completion handed to complete_request carried an error
ErrorLast == completed > 0 /\ lastCompletion.iocb.ioError # None

\* C6: a completion with an error appends exactly that error, never a
\* value, and schedules the next advance; after it the next point is
\* requested (or, with none left, the driver stops).
C6_ErrorRecorded ==
    /\ [][(Completing /\ lastCompletion'.iocb.ioError # None)
          => /\ response_values' =
                   Append(response_values, lastCompletion'.iocb.ioError)
             /\ lastCompletion'.iocb.ioError.kind = "error"
             /\ deferredFns' = Append(deferredFns, "next_request")
             /\ running' /\ raised' = raised]_vars
    /\ [](ErrorLast =>
             \/ deferredFns = <<"next_request">>
             \/ Len(submitted) = completed + 1
             \/ (point_queue = <<>> /\ DriverDone))

C6_Witness ==
    /\ ErrorLast /\ completed = 1 /\ Len(submitted) = 2
    /\ response_values = <<ErrorOf(1)>>

\* C7: the length of response_values equals the number of completions
\* processed.
C7_OneOutcomePerCompletion == Len(response_values) = completed

\* C8: while a request is in flight, no step dequeues another point or
\* submits another request.
C8_NoReentry ==
    [][inflight # {} =>
          (point_queue' = point_queue /\ submitted' = submitted)]_vars

\* C9: the initial decay is the integer floor(5000 / interval).
C9_BudgetIsFloor ==
    polls = 0 => decay[1] = DecayBudget * decay[2]

\* C10: whatever the interval, the monitor sees success or else eventually
\* aborts and stops the loop.
C10_BoundedWait == <>(Succeeded \/ (Aborted /\ ~running))

\* the outcome appended last
LastOutcome(values) == values[Len(values)]

\* C11: a response with a resolved datatype is decoded as Unsigned when the
\* datatype is an array and the index is 0, as the array's subtype when the
\* datatype is an array and the index is present and not 0, and as the
\* datatype itself when it is no array or no index is carried.
C11_DecodingType ==
    [][(/\ Completing
        /\ lastCompletion'.iocb.ioResponse # None
        /\ lastCompletion'.datatype # NoDatatype)
       => LET dt == lastCompletion'.datatype
              ix == lastCompletion'.iocb.ioResponse.propertyArrayIndex
              v == LastOutcome(response_values')
          IN  /\ Len(response_values') = Len(response_values) + 1
              /\ v.kind = "value"
              /\ (dt.isArray /\ ix = 0) => v.type = "Unsigned"
              /\ (dt.isArray /\ ix # NoIndex /\ ix # 0) => v.type = dt.subtype
              /\ (~dt.isArray \/ ix = NoIndex) => v.type = dt.name]_vars

C11_Witness ==
    /\ completed = 2
    /\ Len(response_values) = 2
    /\ lastCompletion.datatype.name = "ArrayOfCharacterString"
    /\ lastCompletion.iocb.ioResponse # None
    /\ lastCompletion.iocb.ioResponse.propertyArrayIndex = 0
    /\ response_values[2].type = "Unsigned"
    /\ response_values[1].type = "Real"

\* C12: the loop is stopped exactly when the driver has found its queue
\* empty or the monitor has counted its budget down to zero while waiting;
\* both stop it, and nothing else does.
C12_StopConditions ==
    /\ [](/\ ~running <=> (DriverDone \/ Aborted)
          /\ Len(stopCalls) <= 1
          /\ DriverDone => (Succeeded /\ point_queue = <<>> /\ inflight = {})
          /\ Aborted => (~Succeeded /\ IsZero(decay) /\ polls > 0)
          /\ (~Succeeded /\ IsZero(decay) /\ polls > 0) => ~running)
    /\ [][(running /\ ~running') =>
            \/ /\ deferredFns # <<>> /\ deferredFns' = Tail(deferredFns)
               /\ point_queue = <<>>
            \/ /\ polls' = polls + 1 /\ ~Succeeded
               /\ registrationStatus # 0 /\ IsZero(decay')]_vars
    /\ [][(/\ running /\ deferredFns # <<>>
           /\ deferredFns' = Tail(deferredFns) /\ point_queue = <<>>)
          => ~running']_vars

C12_Witness == DriverDone /\ ~running /\ Len(response_values) = 2

\* C13: after the loop the printed lines are the point list paired by
\* position with response_values: min(len(point_list), len(response_values))
\* lines, line i pairing point i with entry i.
C13_DumpPairs ==
    pc = "fini" =>
        /\ Len(stdout) <= Len(point_list)
        /\ Len(stdout) <= Len(response_values)
        /\ Len(stdout) = Len(point_list) \/ Len(stdout) = Len(response_values)
        /\ \A i \in 1..Len(stdout) :
              stdout[i] = <<point_list[i], response_values[i]>>

C13_Witness ==
    /\ pc = "fini" /\ Len(stdout) = 3
    /\ stdout[3] = <<3, ErrorOf(3)>>

\* the budget the dog starts with is a whole number of ticks, at least one
WholeBudget ==
    /\ division = "floor" \/ FixedTimeoutMs % interval = 0
    /\ DecayBudget >= 1

\* C14: with a budget of B ticks the monitor aborts on the B-th unsuccessful
\* poll and not before; a success seen on any poll 1..B starts the driver
\* and does not abort, the status being looked at before the count-down.
C14_AbortOnBudgetthPoll ==
    /\ [](WholeBudget =>
            /\ Aborted => /\ ~Succeeded /\ polls = DecayBudget /\ ~running
                          /\ stderr = <<"registration failed\n">>
            /\ (~Succeeded /\ polls < DecayBudget) =>
                  (running /\ stderr = <<>> /\ stopCalls = <<>>)
            /\ (~Succeeded /\ polls >= DecayBudget) => Aborted
            /\ Succeeded => /\ polls \in 1..DecayBudget
                            /\ ~Aborted /\ stderr = <<>>)
    /\ [][(WholeBudget /\ polls' = polls + 1 /\ registrationStatus = 0)
          => /\ Succeeded' /\ running'
             /\ deferredFns' = <<"next_request">>
             /\ decay' = decay /\ stderr' = <<>>]_vars

C14_Witness ==
    /\ WholeBudget /\ interval = MainInterval
    /\ Succeeded /\ polls = DecayBudget
    /\ Len(submitted) = 1

\* C15: once the monitor has seen success no tick is processed again: the
\* decay is not counted down any more, the diagnostic and the abort cannot
\* happen, and the monitor schedules no second advance, whatever the
\* registration status does afterwards.
C15_DeactivatedForGood ==
    /\ [][dogTriggers > 0 =>
            /\ suspended'
            /\ polls' = polls
            /\ decay' = decay
            /\ dogTriggers' = dogTriggers
            /\ stderr' = stderr]_vars
    /\ [](dogTriggers > 0 =>
            (suspended /\ stderr = <<>> /\ ~Aborted /\ dogTriggers = 1))

C15_Witness ==
    /\ dogTriggers = 1 /\ registrationStatus = 48
    /\ completed = 2 /\ DriverDone

\* C16: with an empty point list the first advance after a successful
\* registration goes straight to Done: it stops the loop, submits nothing
\* and leaves response_values empty.
C16_EmptyListDone ==
    point_list = <<>> =>
        /\ submitted = <<>>
        /\ inflight = {}
        /\ response_values = <<>>
        /\ completed = 0
        /\ (Succeeded /\ deferredFns = <<>>) => (DriverDone /\ ~running)
        /\ (Succeeded /\ deferredFns # <<>>) => (running /\ stopCalls = <<>>)

C16_Witness ==
    point_list = <<>> /\ Succeeded /\ DriverDone /\ pc = "fini"

\* a step that does what next_request does
Advancing ==
    \/ submitted' # submitted
    \/ point_queue' # point_queue
    \/ (DriverDone' /\ ~DriverDone)

\* C17: next_request only runs as a deferred function taken from the queue,
\* never inside a tick or a completion; when it runs no request is in
\* flight, and at most one deferred next_request is pending.
C17_AdvanceIsDeferred ==
    /\ [](/\ Len(deferredFns) <= 1
          /\ deferredFns # <<>> => inflight = {})
    /\ [][Advancing =>
            /\ deferredFns = <<"next_request">>
            /\ deferredFns' = <<>>
            /\ inflight = {}
            /\ polls' = polls
            /\ completed' = completed]_vars
    /\ [][(polls' # polls \/ completed' # completed) =>
            /\ ~Advancing
            /\ deferredFns' \in {deferredFns,
                                 Append(deferredFns, "next_request")}]_vars

C17_Witness ==
    /\ deferredFns = <<"next_request">> /\ completed = 2
    /\ inflight = {} /\ point_queue = <<3>>

\* point_queue is what is left of point_list
IsSuffix(q, l) ==
    /\ Len(q) <= Len(l)
    /\ \A i \in 1..Len(q) : q[i] = l[Len(l) - Len(q) + i]

\* C18: point_queue is a suffix of point_list, loses exactly its head in a
\* step that submits a request and changes in no other step, and
\* len(point_queue) + requests in flight + processed completions is
\* len(point_list).
C18_Conservation ==
    /\ [](/\ IsSuffix(point_queue, point_list)
          /\ Len(point_queue) + Cardinality(inflight) + completed
                = Len(point_list))
    /\ [][IF Len(submitted') = Len(submitted) + 1
          THEN /\ point_queue # <<>>
               /\ point_queue' = Tail(point_queue)
               /\ submitted' = Append(submitted, Head(point_queue))
          ELSE point_queue' = point_queue /\ submitted' = submitted]_vars

C18_Witness ==
    /\ point_list = <<1, 2, 3>> /\ point_queue = <<3>>
    /\ inflight = {2} /\ completed = 1

\* C19: a run ended by the registration abort has submitted nothing: the
\* point_queue is still the whole list, response_values is empty and the
\* dump prints no line after the diagnostic.
C19_AbortLeavesNothing ==
    Aborted =>
        /\ point_queue = point_list
        /\ submitted = <<>>
        /\ inflight = {}
        /\ completed = 0
        /\ response_values = <<>>
        /\ stderr = <<"registration failed\n">>
        /\ pc = "fini" => stdout = <<>>

C19_Witness ==
    Aborted /\ pc = "fini" /\ Len(point_list) = 3 /\ stdout = <<>>

\* a tick of the monitor, and one that did not see success
Tick == polls' = polls + 1
UnsuccessfulTick == Tick /\ registrationStatus # 0

\* next_request run from the deferred queue
Advance == deferredFns # <<>> /\ deferredFns' = Tail(deferredFns)

\* what a tick leaves alone whatever it sees
TickFrame ==
    /\ point_queue' = point_queue
    /\ response_values' = response_values
    /\ registrationStatus' = registrationStatus

\* what next_request and complete_request leave alone
DriverFrame ==
    /\ [][Advance => (response_values' = response_values /\ decay' = decay)]_vars
    /\ [][Completing =>
            /\ point_queue' = point_queue
            /\ decay' = decay
            /\ Len(response_values') >= Len(response_values)
            /\ \A i \in 1..Len(response_values) :
                  response_values'[i] = response_values[i]]_vars

\* C20 as stated: a tick changes neither point_queue nor response_values
\* nor the registration status, and an unsuccessful tick changes the decay
\* and nothing else; next_request changes neither response_values nor the
\* decay; complete_request changes neither point_queue nor the decay and
\* keeps every entry response_values already has.
C20_Original ==
    /\ [][Tick => TickFrame]_vars
    /\ [][UnsuccessfulTick =>
            /\ decay' # decay
            /\ UNCHANGED <<point_list, point_queue, response_values,
                           interval, division, suspended,
                           registrationStatus, running, deferredFns,
                           inflight, stderr, stdout, pc>>]_vars
    /\ DriverFrame

\* C20 as amended: the same, where the unsuccessful tick that brings the
\* decay to zero also writes the diagnostic and stops the loop.
C20_Amended ==
    /\ [][Tick => TickFrame]_vars
    /\ [][UnsuccessfulTick =>
            /\ decay' = Decrement(decay)
            /\ UNCHANGED <<point_list, point_queue, response_values,
                           interval, division, suspended,
                           registrationStatus, deferredFns,
                           inflight, stdout, pc>>
            /\ IF IsZero(decay')
               THEN /\ ~running'
                    /\ stderr' = Append(stderr, "registration failed\n")
               ELSE UNCHANGED <<running, stderr>>]_vars
    /\ DriverFrame

C20_Witness ==
    /\ Aborted /\ polls = DecayBudget
    /\ point_queue = <<1, 2>> /\ registrationStatus = 48

====
